---- MODULE Spec2Model ----
(***************************************************************************)
(* Model of fiftyone/core/fields.py: the field descriptors of a sample,    *)
(* each with its validate / to_mongo / to_python methods, applied to       *)
(* Python values.                                                          *)
(*                                                                         *)
(* Python values are records with a "tag" (the value's class).  Numbers    *)
(* are exact: a number is  ovf * (beyond the float range)  or              *)
(* p53 * 2^53 + lo, so that the integers next to 2^53, which a float64     *)
(* cannot all represent, and the integers no float can hold, are in the    *)
(* model without needing 64-bit arithmetic.                                *)
(***************************************************************************)
EXTENDS Integers, Sequences, FiniteSets, TLC

\* ------------------------------------------------------------------ bounds
MaxLen == 2      \* longest list, tuple or array axis
MaxInt == 2      \* the small integers are -1 .. MaxInt
MaxOff == 3      \* the integers around 2^53 are 2^53 + (0 .. MaxOff)

\* ------------------------------------------------------------ Python values
None == [tag |-> "NoneType"]

PyStr(s) == [tag |-> "str", s |-> s]

\* the integer or float  p53 * 2^53 + lo ; ovf = 1 / -1: an int above / below
\* every finite float (such as 10**400 / -10**400)
Num(tag, ovf, p53, lo) == [tag |-> tag, ovf |-> ovf, p53 |-> p53, lo |-> lo]

PyInt(n) == Num("int", 0, 0, n)

PyFloat(n) == Num("float", 0, 0, n)

PyList(items) == [tag |-> "list", items |-> items]

PyTuple(items) == [tag |-> "tuple", items |-> items]

\* elts: a sequence of <<key, value>> pairs, in insertion order
PyDict(elts) == [tag |-> "dict", elts |-> elts]

IsNum(v) == v.tag \in {"int", "float"}

IsSeq(v) == v.tag \in {"list", "tuple"}

\* Python's < on numbers: by numeric value, whatever the class
NumLT(a, b) ==
    \/ a.ovf < b.ovf
    \/ a.ovf = b.ovf /\ a.p53 < b.p53
    \/ a.ovf = b.ovf /\ a.p53 = b.p53 /\ a.lo < b.lo

\* The nearest float64 to the integer p53 * 2^53 + lo (ties to even).  Below
\* 2^53 every integer is a float64; from 2^53 on only the even ones are, and
\* the float64 with an even mantissa are the multiples of 4.
Round53(p53, lo) ==
    IF p53 = 1 /\ lo > 0 /\ lo % 2 = 1
    THEN (IF lo % 4 = 1 THEN lo - 1 ELSE lo + 1)
    ELSE lo

\* --------------------------------------------------- calls and exceptions
Return(v) == [exc |-> "none", msg |-> "", val |-> v]

Raise(e, m) == [exc |-> e, msg |-> m, val |-> None]

NotCalled == [exc |-> "not_called", msg |-> "", val |-> None]

\* mongoengine's BaseField.error: raises ValidationError(message)
error(msg) == Raise("ValidationError", msg)

\* ------------------------------------------------------------- isinstance
\* the direct base classes of the classes of this module and of the values
Bases(cls) ==
    CASE cls = "Field" -> {"mongoengine.BaseField"}
      [] cls = "BooleanField" -> {"mongoengine.BooleanField", "Field"}
      [] cls = "FloatField" -> {"mongoengine.FloatField", "Field"}
      [] cls = "StringField" -> {"mongoengine.StringField", "Field"}
      [] cls = "ListField" -> {"mongoengine.ListField", "Field"}
      [] cls = "DictField" -> {"mongoengine.DictField", "Field"}
      [] cls = "VectorField" -> {"Field"}
      [] cls = "ArrayField" -> {"mongoengine.BinaryField", "Field"}
      [] cls = "ImageLabelsField" -> {"Field"}
      [] cls \in {"mongoengine.BooleanField", "mongoengine.FloatField",
                  "mongoengine.StringField", "mongoengine.ListField",
                  "mongoengine.DictField", "mongoengine.BinaryField"}
            -> {"mongoengine.BaseField"}
      [] cls = "Binary" -> {"bytes"}
      [] cls = "OrderedDict" -> {"dict"}
      [] OTHER -> {}

RECURSIVE Mro(_)
Mro(cls) == {cls} \cup UNION {Mro(b) : b \in Bases(cls)}

isinstance(v, classes) == Mro(v.tag) \cap classes # {}

\* ---------------------------------------------------------------- float()
\* Python's float(value): OverflowError for an int beyond the float range,
\* the nearest float for any other number, ValueError for a string that is
\* not a number, TypeError for any other class
StrNumbers == {"1"}

py_float(value) ==
    CASE IsNum(value) ->
            IF value.ovf # 0
            THEN Raise("OverflowError", "int too large to convert to float")
            ELSE Return(Num("float", 0, value.p53, Round53(value.p53, value.lo)))
      [] value.tag = "str" ->
            IF value.s \in StrNumbers
            THEN Return(PyFloat(1))
            ELSE Raise("ValueError", "could not convert string to float")
      [] OTHER -> Raise("TypeError", "float() argument must be a string or a number")

\* ------------------------------------------------------------- FloatField
FloatField_init(min_value, max_value) ==
    [tag |-> "FloatField", min_value |-> min_value, max_value |-> max_value]

\* self.error("%s could not be converted to float" % value): the % operator
\* takes a tuple as the list of its arguments, and raises TypeError unless it
\* holds exactly one
FormatError(value) ==
    IF value.tag = "tuple" /\ Len(value.items) # 1
    THEN Raise("TypeError", "wrong number of arguments for format string")
    ELSE error("could not be converted to float")

\* the bounds compared with <= and >= : a value equal to a bound is rejected
FloatField_validate_Inclusive(self, value) ==
    LET conv == py_float(value) IN
    IF conv.exc = "OverflowError"
    THEN error("The value is too large to be converted to float")
    ELSE IF conv.exc \in {"TypeError", "ValueError"}
    THEN FormatError(value)
    ELSE IF self.min_value # None /\ ~NumLT(self.min_value, conv.val)
    THEN error("Float value is too small")
    ELSE IF self.max_value # None /\ ~NumLT(conv.val, self.max_value)
    THEN error("Float value is too large")
    ELSE Return(None)

FloatField_validate(self, value) ==
    LET conv == py_float(value) IN
    IF conv.exc = "OverflowError"
    THEN error("The value is too large to be converted to float")
    ELSE IF conv.exc \in {"TypeError", "ValueError"}
    THEN FormatError(value)
    ELSE IF self.min_value # None /\ NumLT(conv.val, self.min_value)
    THEN error("Float value is too small")
    ELSE IF self.max_value # None /\ NumLT(self.max_value, conv.val)
    THEN error("Float value is too large")
    ELSE Return(None)

\* ------------------------------------------------------------------ numpy
\* An ndarray: its dtype, its shape and its elements in row-major order.  An
\* element is the raw number <<p53, lo>>; the dtype says what it is.
NdArray(dtype, shape, data) ==
    [tag |-> "ndarray", dtype |-> dtype, shape |-> shape, data |-> data]

ndim(a) == Len(a.shape)

RECURSIVE Concat(_)
Concat(seqs) == IF seqs = <<>> THEN <<>> ELSE Head(seqs) \o Concat(Tail(seqs))

RECURSIVE Product(_)
Product(shape) == IF shape = <<>> THEN 1 ELSE Head(shape) * Product(Tail(shape))

\* the shape numpy discovers in a number or in nested sequences of equal
\* lengths
RECURSIVE DiscoverShape(_)
DiscoverShape(v) ==
    IF ~IsSeq(v) THEN <<>>
    ELSE IF v.items = <<>> THEN <<0>>
    ELSE <<Len(v.items)>> \o DiscoverShape(v.items[1])

\* the numbers of nested sequences, in row-major order
RECURSIVE Flatten(_)
Flatten(v) ==
    IF ~IsSeq(v) THEN <<v>>
    ELSE Concat([i \in 1..Len(v.items) |-> Flatten(v.items[i])])

\* the dtype numpy infers: float64 as soon as one element is a float (and for
\* no element at all), int64 for ints
ResultType(nums) ==
    IF nums = <<>> \/ \E i \in 1..Len(nums) : nums[i].tag = "float"
    THEN "float64" ELSE "int64"

\* a Python number stored as an element of the dtype: an int stored in a
\* float64 array is rounded to the nearest float64
CastTo(dtype, n) ==
    IF dtype = "float64"
    THEN [p53 |-> n.p53, lo |-> Round53(n.p53, n.lo)]
    ELSE [p53 |-> n.p53, lo |-> n.lo]

\* np.asarray(value): an ndarray as it is, a number as a 0-d array, nested
\* sequences as an array of the discovered shape and the inferred dtype.
\* Modelled for ints within int64, floats, and sequences of them nested to
\* equal lengths.
np_asarray(v) ==
    IF v.tag = "ndarray" THEN v
    ELSE LET nums == Flatten(v)
             dtype == ResultType(nums)
         IN NdArray(dtype, DiscoverShape(v),
                    [i \in 1..Len(nums) |-> CastTo(dtype, nums[i])])

\* the Python scalar of an element: int for int64, float for float64
item(dtype, e) ==
    Num(IF dtype = "float64" THEN "float" ELSE "int", 0, e.p53, e.lo)

\* ndarray.tolist(): the elements as Python scalars, nested in lists along
\* the shape; a 0-d array gives the bare scalar
RECURSIVE ToListRec(_, _, _)
ToListRec(dtype, shape, data) ==
    IF shape = <<>> THEN item(dtype, data[1])
    ELSE LET n == Head(shape)
             sz == Product(Tail(shape))
         IN PyList([i \in 1..n |->
                ToListRec(dtype, Tail(shape),
                          SubSeq(data, (i - 1) * sz + 1, i * sz))])

tolist(a) == ToListRec(a.dtype, a.shape, a.data)

\* ------------------------------------------------------------ VectorField
VectorField_init == [tag |-> "VectorField"]

VectorField_to_mongo(self, value) ==
    IF value = None THEN Return(None)
    ELSE Return(tolist(np_asarray(value)))

\* the stored list handed back as it is, never made an array
VectorField_to_python_NoArray(self, value) == Return(value)

\* None not set apart: np.asarray(None) is a 0-d array of dtype object
VectorField_to_python_NoNoneCheck(self, value) ==
    IF isinstance(value, {"ndarray"}) THEN Return(value)
    ELSE IF value = None THEN Return(NdArray("object", <<>>, <<>>))
    ELSE Return(np_asarray(value))

VectorField_to_python(self, value) ==
    IF value = None \/ isinstance(value, {"ndarray"}) THEN Return(value)
    ELSE Return(np_asarray(value))

\* the rank test off by one: arrays of rank 2 pass
VectorField_validate_OffByOne(self, value) ==
    IF isinstance(value, {"ndarray"})
    THEN (IF ndim(value) > 2
          THEN error("Only 1D arrays may be used in a vector field")
          ELSE Return(None))
    ELSE IF ~isinstance(value, {"list", "tuple"})
    THEN error("Only numpy arrays, lists, and tuples may be used in a vector field")
    ELSE Return(None)

VectorField_validate(self, value) ==
    IF isinstance(value, {"ndarray"})
    THEN (IF ndim(value) > 1
          THEN error("Only 1D arrays may be used in a vector field")
          ELSE Return(None))
    ELSE IF ~isinstance(value, {"list", "tuple"})
    THEN error("Only numpy arrays, lists, and tuples may be used in a vector field")
    ELSE Return(None)

\* ------------------------------------------- fiftyone.core.utils array codec
\* A byte string is a sequence of naturals.  The uncompressed form of an array
\* is its dtype code, its rank, its shape and two bytes per element; the blob
\* is that form run-length compressed, as <<count, byte>> pairs.
DtypeCode(dtype) == IF dtype = "float64" THEN 1 ELSE 0

CodeDtype(code) == IF code = 1 THEN "float64" ELSE "int64"

PyBytes(b) == [tag |-> "bytes", b |-> b]

RECURSIVE RunLength(_, _)
RunLength(bytes, b) ==
    IF bytes = <<>> \/ Head(bytes) # b THEN 0 ELSE 1 + RunLength(Tail(bytes), b)

RECURSIVE Compress(_)
Compress(bytes) ==
    IF bytes = <<>> THEN <<>>
    ELSE LET n == RunLength(bytes, Head(bytes))
         IN <<n, Head(bytes)>> \o Compress(SubSeq(bytes, n + 1, Len(bytes)))

RECURSIVE Decompress(_)
Decompress(pairs) ==
    IF pairs = <<>> THEN <<>>
    ELSE [i \in 1..pairs[1] |-> pairs[2]]
            \o Decompress(SubSeq(pairs, 3, Len(pairs)))

serialize_numpy_array(a) ==
    PyBytes(Compress(
        <<DtypeCode(a.dtype), Len(a.shape)>> \o a.shape
        \o Concat([i \in 1..Len(a.data) |-> <<a.data[i].p53, a.data[i].lo + 1>>])))

deserialize_numpy_array(blob) ==
    LET raw == Decompress(blob.b)
        nd == raw[2]
        body == SubSeq(raw, 3 + nd, Len(raw))
    IN NdArray(CodeDtype(raw[1]), SubSeq(raw, 3, 2 + nd),
               [i \in 1..(Len(body) \div 2) |->
                    [p53 |-> body[2 * i - 1], lo |-> body[2 * i] - 1]])

\* ------------------------------------------------------------- ArrayField
ArrayField_init == [tag |-> "ArrayField"]

\* mongoengine's BinaryField.to_mongo: wraps the bytes in a bson Binary
BinaryField_to_mongo(bytes) == [tag |-> "Binary", b |-> bytes.b]

ArrayField_to_mongo(self, value) ==
    IF value = None THEN Return(None)
    ELSE Return(BinaryField_to_mongo(serialize_numpy_array(value)))

\* the blob handed back as it is, never decoded
ArrayField_to_python_NoDecode(self, value) == Return(value)

ArrayField_to_python(self, value) ==
    IF value = None \/ isinstance(value, {"ndarray"}) THEN Return(value)
    ELSE Return(deserialize_numpy_array(value))

\* blobs rejected: only arrays pass
ArrayField_validate_ArraysOnly(self, value) ==
    IF ~isinstance(value, {"ndarray"})
    THEN error("Only numpy arrays may be used in an array field")
    ELSE Return(None)

ArrayField_validate(self, value) ==
    IF ~isinstance(value, {"ndarray", "Binary"})
    THEN error("Only numpy arrays may be used in an array field")
    ELSE Return(None)

\* ------------------------------------------------- eta.core.image.ImageLabels
\* An annotation object: the image's file name (or None) and the names of its
\* attributes.  serialize() writes the fields that are set into a dictionary;
\* from_dict() builds the object from such a dictionary.
ImageLabels(filename, attrs) ==
    [tag |-> "ImageLabels", filename |-> filename, attrs |-> attrs]

RECURSIVE DictGet(_, _, _)
DictGet(elts, key, default) ==
    IF elts = <<>> THEN default
    ELSE IF Head(elts)[1] = key THEN Head(elts)[2]
    ELSE DictGet(Tail(elts), key, default)

ImageLabels_serialize(obj) ==
    PyDict((IF obj.filename = None THEN <<>>
            ELSE << <<"filename", obj.filename>> >>)
           \o << <<"attrs",
                   PyList([i \in 1..Len(obj.attrs) |-> PyStr(obj.attrs[i])])>> >>)

ImageLabels_from_dict(d) ==
    LET names == DictGet(d.elts, "attrs", PyList(<<>>)).items
    IN ImageLabels(DictGet(d.elts, "filename", None),
                   [i \in 1..Len(names) |-> names[i].s])

\* ------------------------------------------------------- ImageLabelsField
ImageLabelsField_init == [tag |-> "ImageLabelsField"]

\* value.serialize(): Python finds the method on an ImageLabels only
ImageLabelsField_to_mongo(self, value) ==
    IF value = None THEN Return(None)
    ELSE IF value.tag = "ImageLabels" THEN Return(ImageLabels_serialize(value))
    ELSE Raise("AttributeError", "object has no attribute 'serialize'")

\* the dictionary handed back as it is, never made an object
ImageLabelsField_to_python_NoDecode(self, value) == Return(value)

ImageLabelsField_to_python(self, value) ==
    IF value = None \/ isinstance(value, {"ImageLabels"}) THEN Return(value)
    ELSE Return(ImageLabels_from_dict(value))

ImageLabelsField_validate(self, value) ==
    IF ~isinstance(value, {"dict", "ImageLabels"})
    THEN error("Only dicts and eta.core.image.ImageLabels instances may be used in an ImageLabels field")
    ELSE Return(None)

\* ---------------------------------------------------- ListField, DictField
\* the constructor's outcome: the new field, or the exception it raises
\* the argument is tested against mongoengine's base class, not Field
ListField_init_BaseField(field) ==
    IF field # None /\ ~isinstance(field, {"mongoengine.BaseField"})
    THEN Raise("ValueError", "Invalid field type; must be a subclass of Field")
    ELSE Return([tag |-> "ListField", field |-> field])

ListField_init(field) ==
    IF field # None /\ ~isinstance(field, {"Field"})
    THEN Raise("ValueError", "Invalid field type; must be a subclass of Field")
    ELSE Return([tag |-> "ListField", field |-> field])

DictField_init(field) ==
    IF field # None /\ ~isinstance(field, {"Field"})
    THEN Raise("ValueError", "Invalid field type; must be a subclass of Field")
    ELSE Return([tag |-> "DictField", field |-> field])

\* ------------------------------------------------------ method resolution
validate(self, v) ==
    CASE self.tag = "FloatField" -> FloatField_validate(self, v)
      [] self.tag = "VectorField" -> VectorField_validate(self, v)
      [] self.tag = "ArrayField" -> ArrayField_validate(self, v)
      [] self.tag = "ImageLabelsField" -> ImageLabelsField_validate(self, v)

to_mongo(self, v) ==
    CASE self.tag = "VectorField" -> VectorField_to_mongo(self, v)
      [] self.tag = "ArrayField" -> ArrayField_to_mongo(self, v)
      [] self.tag = "ImageLabelsField" -> ImageLabelsField_to_mongo(self, v)

to_python(self, v) ==
    CASE self.tag = "VectorField" -> VectorField_to_python(self, v)
      [] self.tag = "ArrayField" -> ArrayField_to_python(self, v)
      [] self.tag = "ImageLabelsField" -> ImageLabelsField_to_python(self, v)

\* ----------------------------------------------------------------- inputs
SeqsOver(S, n) == UNION {[1..k -> S] : k \in 0..n}

SmallInts == {PyInt(n) : n \in -1..MaxInt}

SmallFloats == {PyFloat(n) : n \in 0..MaxInt}

\* 2^53 + k as an int, and as a float where a float64 can hold it
BigInts == {Num("int", 0, 1, k) : k \in 0..MaxOff}

BigFloats == {Num("float", 0, 1, k) : k \in {j \in 0..MaxOff : j % 2 = 0}}

\* 10**400 and -10**400
HugeInts == {Num("int", 1, 0, 0), Num("int", -1, 0, 0)}

VecNums == SmallInts \cup SmallFloats \cup BigInts \cup BigFloats

FlatLists == {PyList(s) : s \in SeqsOver(VecNums, MaxLen)}

FlatTuples == {PyTuple(s) : s \in SeqsOver(VecNums, MaxLen)}

\* lists of 1..MaxLen rows, each row a list or a tuple of the same 1..MaxLen
\* length
RowNums == {PyInt(0), PyFloat(1)}

Rows(k) == {PyList(s) : s \in [1..k -> RowNums]}
              \cup {PyTuple(s) : s \in [1..k -> RowNums]}

NestedLists ==
    UNION {{PyList(rows) : rows \in [1..n -> Rows(k)]} :
              n \in 1..MaxLen, k \in 1..MaxLen}

\* the arrays of rank 0, 1 and 2
Arrays == {np_asarray(v) : v \in VecNums \cup FlatLists \cup NestedLists}

Blobs == {BinaryField_to_mongo(serialize_numpy_array(a)) :
             a \in {np_asarray(v) : v \in SmallInts \cup NestedLists}}

AttrNames == {"cat", "dog"}

Annotations ==
    {ImageLabels(f, a) : f \in {None, PyStr("a.jpg")},
                         a \in SeqsOver(AttrNames, MaxLen)}

Dicts == {ImageLabels_serialize(o) : o \in Annotations}
            \cup {PyDict(<<>>), [tag |-> "OrderedDict", elts |-> <<>>]}

FloatBounds ==
    {None, Num("int", 0, 1, 1)} \cup {PyInt(n) : n \in 0..(MaxInt - 1)}

FloatInputs ==
    SmallInts \cup SmallFloats \cup BigInts \cup BigFloats \cup HugeInts
        \cup {PyStr("abc"), PyStr("1"), None, PyList(<<>>), PyTuple(<<>>)}

VectorInputs ==
    FlatLists \cup FlatTuples \cup NestedLists \cup Arrays
        \cup {None, PyInt(1), PyStr("abc"), PyDict(<<>>), PyBytes(<<>>)}

ArrayInputs ==
    Arrays \cup Blobs
        \cup {None, PyInt(1), PyStr("abc"), PyList(<<>>), PyBytes(<<>>)}

ImageLabelsInputs ==
    Annotations \cup Dicts
        \cup {None, PyInt(1), PyStr("abc"), PyList(<<>>), NdArray("int64", <<0>>, <<>>)}

\* what ListField and DictField are constructed with: nothing, instances of
\* fields of this module, an instance of a mongoengine field, the class Field
\* itself, a number, a string
ElementArgs ==
    {None, FloatField_init(None, None), VectorField_init,
     [tag |-> "StringField"], [tag |-> "ListField", field |-> None],
     [tag |-> "mongoengine.StringField"], [tag |-> "type", name |-> "Field"],
     PyInt(1), PyStr("FloatField")}

Inputs(self) ==
    CASE self.tag = "FloatField" -> FloatInputs
      [] self.tag = "VectorField" -> VectorInputs
      [] self.tag = "ArrayField" -> ArrayInputs
      [] self.tag = "ImageLabelsField" -> ImageLabelsInputs
      [] OTHER -> {}

\* the values the write conversion of a field is modelled for: np.asarray of
\* None, numbers, sequences and arrays; the codec of arrays; serialize() of
\* any object
Writable(self, v) ==
    CASE self.tag = "VectorField" ->
            v.tag \in {"NoneType", "int", "float", "list", "tuple", "ndarray"}
      [] self.tag = "ArrayField" -> v.tag \in {"NoneType", "ndarray"}
      [] self.tag = "ImageLabelsField" -> TRUE
      [] OTHER -> FALSE

\* the values the read conversion of a field is modelled for
Readable(self, v) ==
    CASE self.tag = "VectorField" ->
            v.tag \in {"NoneType", "int", "float", "list", "tuple", "ndarray"}
      [] self.tag = "ArrayField" -> v.tag \in {"NoneType", "ndarray", "Binary"}
      [] self.tag = "ImageLabelsField" ->
            v.tag \in {"NoneType", "ImageLabels", "dict", "OrderedDict"}
      [] OTHER -> FALSE

\* ------------------------------------------------------------------ state
\* ctor:      the constructor call made: the class and its field argument
\* field:     the outcome of that call: the new field, or the exception
\* value:     the value given to the field
\* validated: the outcome of field.validate(value)
\* stored:    the outcome of field.to_mongo(value)
\* loaded:    the outcome of field.to_python(stored value), or of
\*            field.to_python(value) when the value is read without a write
\* reloaded:  the outcome of field.to_python(loaded value)
VARIABLES ctor, field, value, validated, stored, loaded, reloaded, pc

vars == <<ctor, field, value, validated, stored, loaded, reloaded, pc>>

Init ==
    /\ ctor = [cls |-> "none", arg |-> None]
    /\ field = NotCalled
    /\ value = None
    /\ validated = NotCalled
    /\ stored = NotCalled
    /\ loaded = NotCalled
    /\ reloaded = NotCalled
    /\ pc = "new"

Construct(cls, arg, outcome) ==
    /\ pc = "new"
    /\ ctor' = [cls |-> cls, arg |-> arg]
    /\ field' = outcome
    /\ pc' = "constructed"
    /\ UNCHANGED <<value, validated, stored, loaded, reloaded>>

NewFloatField ==
    \E lo \in FloatBounds, hi \in FloatBounds :
        Construct("FloatField", None, Return(FloatField_init(lo, hi)))

NewVectorField == Construct("VectorField", None, Return(VectorField_init))

NewArrayField == Construct("ArrayField", None, Return(ArrayField_init))

NewImageLabelsField ==
    Construct("ImageLabelsField", None, Return(ImageLabelsField_init))

NewListField ==
    \E f \in ElementArgs : Construct("ListField", f, ListField_init(f))

NewDictField ==
    \E f \in ElementArgs : Construct("DictField", f, DictField_init(f))

Assign ==
    /\ pc = "constructed"
    /\ field.exc = "none"
    /\ \E v \in Inputs(field.val) : value' = v
    /\ pc' = "assigned"
    /\ UNCHANGED <<ctor, field, validated, stored, loaded, reloaded>>

Validate ==
    /\ pc = "assigned"
    /\ validated' = validate(field.val, value)
    /\ pc' = "validated"
    /\ UNCHANGED <<ctor, field, value, stored, loaded, reloaded>>

ToMongo ==
    /\ pc = "validated"
    /\ Writable(field.val, value)
    /\ stored' = to_mongo(field.val, value)
    /\ pc' = "stored"
    /\ UNCHANGED <<ctor, field, value, validated, loaded, reloaded>>

ToPython ==
    /\ pc = "stored"
    /\ stored.exc = "none"
    /\ loaded' = to_python(field.val, stored.val)
    /\ pc' = "loaded"
    /\ UNCHANGED <<ctor, field, value, validated, stored, reloaded>>

ToPythonOfValue ==
    /\ pc = "validated"
    /\ Readable(field.val, value)
    /\ loaded' = to_python(field.val, value)
    /\ pc' = "loaded"
    /\ UNCHANGED <<ctor, field, value, validated, stored, reloaded>>

ToPythonAgain ==
    /\ pc = "loaded"
    /\ reloaded' = to_python(field.val, loaded.val)
    /\ pc' = "reloaded"
    /\ UNCHANGED <<ctor, field, value, validated, stored, loaded>>

Next ==
    \/ NewFloatField
    \/ NewVectorField
    \/ NewArrayField
    \/ NewImageLabelsField
    \/ NewListField
    \/ NewDictField
    \/ Assign
    \/ Validate
    \/ ToMongo
    \/ ToPython
    \/ ToPythonOfValue
    \/ ToPythonAgain

Spec == Init /\ [][Next]_vars

\* ----------------------------------------------------------------- claims
IsField(cls) == field.exc = "none" /\ field.val.tag = cls

\* the round trip was made: to_mongo(value), then to_python of what it stored
RoundTripped == pc \in {"loaded", "reloaded"} /\ stored.exc = "none"

WasValidated == validated.exc # "not_called"

\* a list or tuple of numbers, or an array of rank 1
Is1DInput(v) ==
    \/ IsSeq(v) /\ \A i \in 1..Len(v.items) : IsNum(v.items[i])
    \/ v.tag = "ndarray" /\ Len(v.shape) = 1

\* the numbers of a 1-D input, in order
ValuesOf(v) ==
    IF v.tag = "ndarray" THEN v.data
    ELSE [i \in 1..Len(v.items) |-> [p53 |-> v.items[i].p53, lo |-> v.items[i].lo]]

IsFlatNumberList(v) ==
    v.tag = "list" /\ \A i \in 1..Len(v.items) : IsNum(v.items[i])

\* the round trip of a 1-D input stores a plain list of numbers and reads an
\* array of rank 1 holding the input's numbers in order
VectorRoundTripOK ==
    /\ IsFlatNumberList(stored.val)
    /\ Len(stored.val.items) = Len(ValuesOf(value))
    /\ loaded.exc = "none"
    /\ loaded.val.tag = "ndarray"
    /\ Len(loaded.val.shape) = 1
    /\ loaded.val.data = ValuesOf(value)

\* C1 as stated: for every 1-D input of VectorField (list, tuple, 1-D array),
\* to_mongo stores a plain ordered sequence of numbers and to_python of it is
\* a numeric array holding the original values in the original order.
C1_AsStated ==
    (IsField("VectorField") /\ RoundTripped /\ Is1DInput(value))
        => VectorRoundTripOK

\* a float64 holds the number exactly
ExactFloat64(n) == n.ovf = 0 /\ Round53(n.p53, n.lo) = n.lo

\* a sequence that holds a float holds no int that a float64 cannot represent
NoLossyPromotion(v) ==
    IsSeq(v) =>
        \/ \A i \in 1..Len(v.items) : v.items[i].tag = "int"
        \/ \A i \in 1..Len(v.items) : ExactFloat64(v.items[i])

\* C1 amended: the round trip of a 1-D input yields an array of rank 1 with
\* the original values in order (through a plain list of numbers), provided
\* that a list or tuple that mixes ints with floats holds only ints that are
\* exactly representable as float64.
C1_VectorRoundTrip ==
    (IsField("VectorField") /\ RoundTripped /\ Is1DInput(value)
        /\ NoLossyPromotion(value))
        => VectorRoundTripOK

C1_Witness ==
    /\ IsField("VectorField") /\ RoundTripped
    /\ value.tag = "tuple" /\ Len(value.items) = MaxLen
    /\ \E i \in 1..Len(value.items) : value.items[i].tag = "float"
    /\ \E i \in 1..Len(value.items) :
          value.items[i].tag = "int" /\ value.items[i].p53 = 1
    /\ NoLossyPromotion(value)
    /\ loaded.val.tag = "ndarray"

\* C2: VectorField.validate rejects every array of 2 or more dimensions with
\* the "Only 1D arrays" error, accepts every 1-D array, and rejects every
\* value that is not an array, a list or a tuple.
C2_VectorValidate ==
    (IsField("VectorField") /\ WasValidated) =>
        /\ (value.tag = "ndarray" /\ Len(value.shape) >= 2) =>
              /\ validated.exc = "ValidationError"
              /\ validated.msg = "Only 1D arrays may be used in a vector field"
        /\ (value.tag = "ndarray" /\ Len(value.shape) = 1) =>
              validated.exc = "none"
        /\ value.tag \notin {"ndarray", "list", "tuple"} =>
              validated.exc = "ValidationError"

C2_Witness ==
    /\ IsField("VectorField") /\ WasValidated
    /\ value.tag = "ndarray" /\ Len(value.shape) = 2
    /\ validated.exc = "ValidationError"

\* C3: for every array of rank >= 1, ArrayField.to_mongo stores a binary blob
\* and ArrayField.to_python of that blob is an array equal to the original in
\* shape, dtype and elements (the codec being a lossless pair).
C3_ArrayRoundTrip ==
    (IsField("ArrayField") /\ RoundTripped
        /\ value.tag = "ndarray" /\ Len(value.shape) >= 1) =>
        /\ stored.val.tag = "Binary"
        /\ loaded.exc = "none"
        /\ loaded.val.tag = "ndarray"
        /\ loaded.val.shape = value.shape
        /\ loaded.val.data = value.data
        /\ loaded.val.dtype = value.dtype

C3_Witness ==
    /\ IsField("ArrayField") /\ RoundTripped
    /\ value.tag = "ndarray" /\ Len(value.shape) = 2
    /\ Len(value.data) > 1
    /\ loaded.val = value

\* the value lies within the bounds the field is configured with
BelowMin(self, v) == self.min_value # None /\ NumLT(v, self.min_value)

AboveMax(self, v) == self.max_value # None /\ NumLT(self.max_value, v)

\* C4 as stated: FloatField.validate succeeds for every numeric value within
\* the configured bounds, fails with "Float value is too small" for every
\* value below min_value and with "Float value is too large" for every value
\* above max_value.
C4_AsStated ==
    (IsField("FloatField") /\ WasValidated /\ IsNum(value)) =>
        /\ (~BelowMin(field.val, value) /\ ~AboveMax(field.val, value)) =>
              validated.exc = "none"
        /\ BelowMin(field.val, value) =>
              validated.msg = "Float value is too small"
        /\ AboveMax(field.val, value) =>
              validated.msg = "Float value is too large"

\* C4 amended: for every number that float() converts exactly (no overflow,
\* no rounding), validate succeeds when the value is within the bounds, fails
\* with "Float value is too small" when it is below min_value, and fails with
\* "Float value is too large" when it is above max_value and not below
\* min_value.
C4_FloatValidate ==
    (IsField("FloatField") /\ WasValidated /\ IsNum(value)
        /\ ExactFloat64(value)) =>
        /\ (~BelowMin(field.val, value) /\ ~AboveMax(field.val, value)) =>
              validated.exc = "none"
        /\ BelowMin(field.val, value) =>
              /\ validated.exc = "ValidationError"
              /\ validated.msg = "Float value is too small"
        /\ (AboveMax(field.val, value) /\ ~BelowMin(field.val, value)) =>
              /\ validated.exc = "ValidationError"
              /\ validated.msg = "Float value is too large"

C4_Witness ==
    /\ IsField("FloatField") /\ WasValidated
    /\ IsNum(value) /\ ExactFloat64(value)
    /\ field.val.min_value # None
    /\ AboveMax(field.val, value)
    /\ validated.msg = "Float value is too large"

\* the classes of this module, all of them fields
FieldClasses ==
    {"Field", "BooleanField", "IntField", "FloatField", "StringField",
     "ListField", "DictField", "VectorField", "ArrayField",
     "ImageLabelsField", "EmbeddedDocumentField"}

\* C5: constructing a ListField or a DictField with an argument that is not
\* None and not an instance of a field class raises and makes no field; with
\* None or a field instance the constructor returns the field.
C5_ContainerInit ==
    (ctor.cls \in {"ListField", "DictField"}) =>
        IF ctor.arg # None /\ ctor.arg.tag \notin FieldClasses
        THEN field.exc = "ValueError" /\ field.val = None
        ELSE /\ field.exc = "none"
             /\ field.val.tag = ctor.cls
             /\ field.val.field = ctor.arg

C5_Witness ==
    /\ ctor.cls = "DictField"
    /\ ctor.arg.tag = "mongoengine.StringField"
    /\ field.exc = "ValueError"

\* C6: for every annotation object, ImageLabelsField.to_mongo stores its
\* serialized dictionary and to_python of that dictionary is an annotation
\* object equal to the original.
C6_ImageLabelsRoundTrip ==
    (IsField("ImageLabelsField") /\ RoundTripped /\ value.tag = "ImageLabels") =>
        /\ stored.val.tag = "dict"
        /\ loaded.exc = "none"
        /\ loaded.val = value

C6_Witness ==
    /\ IsField("ImageLabelsField") /\ RoundTripped
    /\ value.tag = "ImageLabels"
    /\ value.filename # None /\ Len(value.attrs) = MaxLen
    /\ loaded.val = value

\* C7: every value that ImageLabelsField.validate accepts is written by
\* to_mongo without error, as a serialized dictionary.
C7_ValidatedThenWritten ==
    (IsField("ImageLabelsField") /\ pc = "stored" /\ validated.exc = "none") =>
        /\ stored.exc = "none"
        /\ stored.val.tag = "dict"

ReadFrom == IF stored.exc = "none" THEN stored.val ELSE value

Decoded(v) ==
    \/ field.val.tag \in {"VectorField", "ArrayField"} /\ v.tag = "ndarray"
    \/ field.val.tag = "ImageLabelsField" /\ v.tag = "ImageLabels"

\* C9: for VectorField, ArrayField and ImageLabelsField, to_python returns an
\* already decoded value (an array, an annotation object) unchanged, to_python
\* and to_mongo of None are None, and to_python is idempotent.
C9_ReadIdempotent ==
    /\ (pc = "stored" /\ value = None) => stored = Return(None)
    /\ (pc \in {"loaded", "reloaded"}) =>
          /\ (Decoded(ReadFrom) \/ ReadFrom = None) => loaded = Return(ReadFrom)
          /\ loaded.exc = "none"
    /\ (pc = "reloaded") => reloaded = loaded

C9_Witness ==
    /\ pc = "reloaded"
    /\ IsField("ArrayField")
    /\ ReadFrom.tag = "Binary"
    /\ reloaded.val.tag = "ndarray"
    /\ Len(reloaded.val.shape) = 2

\* C10: every value VectorField.validate accepts is stored by to_mongo as a
\* flat sequence of numbers and read back by to_python as an array of exactly
\* one dimension.
C10_AcceptedIsOneDimensional ==
    (IsField("VectorField") /\ RoundTripped /\ validated.exc = "none"
        /\ value # None) =>
        /\ IsFlatNumberList(stored.val)
        /\ loaded.val.tag = "ndarray"
        /\ Len(loaded.val.shape) = 1
====
